---- MODULE Spec2Model ----
(***************************************************************************)
(* Smart-University-Scheduler: the institution scheduler (SchedulerGA over *)
(* DataPreparer) and the per-student scheduler (StudentSchedulerGA over    *)
(* StudentData), both driving a pygad.GA instance.                         *)
(*                                                                         *)
(* Representation choices                                                  *)
(*  - a Python str that the code compares with <, <= (clock times) is a    *)
(*    sequence of character codes, digits '0'..'9' as 0..9 and ':' as 10   *)
(*    (the ASCII order), compared lexicographically as Python does;        *)
(*  - a timeslot f"{day}_{hour:02d}:00" is the record of the two parts     *)
(*    that split('_') returns;                                             *)
(*  - a gene is a float drawn by numpy.random.uniform(low, high); it is    *)
(*    represented by its integer part g (the float lies in [g, g+1)),      *)
(*    which is the only part int(solution[i]) reads;                       *)
(*  - fitness 1.0 / (penalty + 1e-9) is the exact rational, kept as its    *)
(*    denominator penalty + eps * 1e-9.                                    *)
(***************************************************************************)
EXTENDS Integers, Sequences, FiniteSets, TLC

VARIABLES
  variant,                \* "institution" or "student"
  input,                  \* the tables handed to DataPreparer / StudentData
  ga_params,              \* generations, parents_mating, sol_per_pop, mutation_percent
  pc,                     \* position in the facade's life cycle
  data,                   \* the fields of DataPreparer / StudentData
  gene_space,             \* SchedulerGA.gene_space: sequence of [low, high]
  population,             \* ga_instance.population
  generations_completed,  \* ga_instance.generations_completed
  best_solutions_fitness, \* ga_instance.best_solutions_fitness
  events,                 \* what _on_generation logged, in order
  solution,               \* the chromosome handed to _decode_solution
  result                  \* what the last call returned

vars == <<variant, input, ga_params, pc, data, gene_space, population,
          generations_completed, best_solutions_fitness, events, solution, result>>

----------------------------------------------------------------------------
(* Generic helpers *)

Range(s) == {s[i] : i \in DOMAIN s}

Repeat(x, n) == [i \in 1..n |-> x]

\* Python's 0-based subscript on a list / array
At(s, idx) == s[idx + 1]

RECURSIVE SeqsOver(_, _)
\* all sequences of length n over the set S
SeqsOver(S, n) ==
  IF n = 0 THEN {<<>>}
  ELSE {Append(s, x) : s \in SeqsOver(S, n - 1), x \in S}

SeqsUpTo(S, n) == UNION {SeqsOver(S, k) : k \in 0..n}

NoDuplicates(s) == \A i, j \in DOMAIN s : i # j => s[i] # s[j]

----------------------------------------------------------------------------
(* Strings that the code orders *)

ColonChar == 10

TwoDigits(n) == <<n \div 10, n % 10>>

ClockString(h, m) == TwoDigits(h) \o <<ColonChar>> \o TwoDigits(m)

RECURSIVE StrLt(_, _)
StrLt(a, b) ==
  IF b = <<>> THEN FALSE
  ELSE IF a = <<>> THEN TRUE
  ELSE IF Head(a) < Head(b) THEN TRUE
  ELSE IF Head(a) > Head(b) THEN FALSE
  ELSE StrLt(Tail(a), Tail(b))

StrLe(a, b) == a = b \/ StrLt(a, b)

----------------------------------------------------------------------------
(* DataPreparer *)

Days == <<"Sunday", "Monday", "Tuesday", "Wednesday", "Thursday">>

FirstHour == 8

EndHour == 17

Hours == [k \in 1..(EndHour - FirstHour) |-> FirstHour + k - 1]

FormatTimeslot(day, hour) == [day |-> day, time |-> ClockString(hour, 0)]

timeslots ==
  [k \in 1..(Len(Days) * Len(Hours)) |->
     FormatTimeslot(Days[((k - 1) \div Len(Hours)) + 1],
                    Hours[((k - 1) % Len(Hours)) + 1])]

\* self.courses[self.courses['course_id'] == course_id]: the matching rows
CourseRows(courses, course_id) ==
  SelectSeq(courses, LAMBDA row : row.course_id = course_id)

RECURSIVE lectures_to_schedule(_, _)
lectures_to_schedule(teacher_courses, courses) ==
  IF teacher_courses = <<>> THEN <<>>
  ELSE LET row == Head(teacher_courses)
           num_lectures == CourseRows(courses, row.course_id)[1].lectures_per_week
       IN  Repeat([course_id |-> row.course_id, teacher_id |-> row.teacher_id],
                  num_lectures)
           \o lectures_to_schedule(Tail(teacher_courses), courses)

teacher_pref_dict(teacher_preferences) ==
  LET keys == {<<row.teacher_id, row.day>> : row \in Range(teacher_preferences)}
  IN  [key \in keys |->
         LET rows == SelectSeq(teacher_preferences,
                               LAMBDA row : <<row.teacher_id, row.day>> = key)
         IN  [i \in DOMAIN rows |->
                <<rows[i].preferred_start_time, rows[i].preferred_end_time>>]]

\* .iloc[0] on an empty selection raises IndexError
DataPreparer_raises(inp) ==
  \E i \in DOMAIN inp.teacher_courses :
     CourseRows(inp.courses, inp.teacher_courses[i].course_id) = <<>>

DataPreparer(inp) ==
  [lectures_to_schedule |-> lectures_to_schedule(inp.teacher_courses, inp.courses),
   timeslots            |-> timeslots,
   teacher_pref_dict    |-> teacher_pref_dict(inp.teacher_preferences),
   classrooms           |-> inp.classrooms]

----------------------------------------------------------------------------
(* SchedulerGA *)

SchedulerGA_num_lectures(d) == Len(d.lectures_to_schedule)

SchedulerGA_num_genes(d) == SchedulerGA_num_lectures(d) * 2

SchedulerGA_gene_space_swapped(d) ==
  [g \in 1..SchedulerGA_num_genes(d) |->
     IF g % 2 = 1 THEN [low |-> 0, high |-> Len(d.timeslots)]
                  ELSE [low |-> 0, high |-> Len(d.classrooms)]]

SchedulerGA_gene_space(d) ==
  [g \in 1..SchedulerGA_num_genes(d) |->
     IF g % 2 = 1 THEN [low |-> 0, high |-> Len(d.classrooms)]
                  ELSE [low |-> 0, high |-> Len(d.timeslots)]]

\* subscripting a list of length n with idx (genes are never negative)
IndexOk(idx, n) == 0 <= idx /\ idx < n

DecodeError == [error |-> "IndexError", schedule |-> <<>>]

SchedulerGA_decode_solution_shifted(d, sol) ==
  LET n == SchedulerGA_num_lectures(d)
      room_index(i) == At(sol, i * 2 + 1)
      timeslot_index(i) == At(sol, i * 2)
  IN  IF \E i \in 0..(n - 1) :
           \/ ~IndexOk(i * 2 + 1, Len(sol))
           \/ ~IndexOk(room_index(i), Len(d.classrooms))
           \/ ~IndexOk(timeslot_index(i), Len(d.timeslots))
      THEN DecodeError
      ELSE [error |-> "none",
            schedule |->
              [k \in 1..n |->
                 [course_id  |-> d.lectures_to_schedule[k].course_id,
                  teacher_id |-> d.lectures_to_schedule[k].teacher_id,
                  room_id    |-> At(d.classrooms, room_index(k - 1)),
                  timeslot   |-> At(d.timeslots, timeslot_index(k - 1))]]]

SchedulerGA_decode_solution(d, sol) ==
  LET n == SchedulerGA_num_lectures(d)
      room_index(i) == At(sol, i * 2)
      timeslot_index(i) == At(sol, i * 2 + 1)
  IN  IF \E i \in 0..(n - 1) :
           \/ ~IndexOk(i * 2 + 1, Len(sol))
           \/ ~IndexOk(room_index(i), Len(d.classrooms))
           \/ ~IndexOk(timeslot_index(i), Len(d.timeslots))
      THEN DecodeError
      ELSE [error |-> "none",
            schedule |->
              [k \in 1..n |->
                 [course_id  |-> d.lectures_to_schedule[k].course_id,
                  teacher_id |-> d.lectures_to_schedule[k].teacher_id,
                  room_id    |-> At(d.classrooms, room_index(k - 1)),
                  timeslot   |-> At(d.timeslots, timeslot_index(k - 1))]]]

TeacherConflictPenalty == 1000

RoomConflictPenalty == 1000

AvailabilityPenalty == 500

\* any(start <= time < end for start, end in windows)
is_within_preference(windows, time) ==
  \E i \in DOMAIN windows :
     StrLe(windows[i][1], time) /\ StrLt(time, windows[i][2])

\* a teacher with no window on the day counted as available all that day
AvailabilityStep_ignore_missing(d, lecture) ==
  LET pref_key == <<lecture.teacher_id, lecture.timeslot.day>>
      time == lecture.timeslot.time
  IN  IF pref_key \in DOMAIN d.teacher_pref_dict
      THEN IF ~is_within_preference(d.teacher_pref_dict[pref_key], time)
           THEN AvailabilityPenalty ELSE 0
      ELSE 0

\* lines 115-121: a window on the day that does not hold the start time costs 500, and
\* so does having no window on the day at all
AvailabilityStep(d, lecture) ==
  LET pref_key == <<lecture.teacher_id, lecture.timeslot.day>>
      time == lecture.timeslot.time
  IN  IF pref_key \in DOMAIN d.teacher_pref_dict
      THEN IF ~is_within_preference(d.teacher_pref_dict[pref_key], time)
           THEN AvailabilityPenalty ELSE 0
      ELSE AvailabilityPenalty

RECURSIVE PenaltyLoopNoRoom(_, _, _, _, _, _)
PenaltyLoopNoRoom(d, schedule, i, teacher_bookings, room_bookings, penalty) ==
  IF i > Len(schedule) THEN penalty
  ELSE LET lecture == schedule[i]
           teacher_key == <<lecture.teacher_id, lecture.timeslot>>
           p1 == IF teacher_key \in teacher_bookings THEN TeacherConflictPenalty ELSE 0
       IN  PenaltyLoopNoRoom(d, schedule, i + 1,
                             teacher_bookings \cup {teacher_key},
                             room_bookings,
                             penalty + p1 + AvailabilityStep(d, lecture))

RECURSIVE PenaltyLoop(_, _, _, _, _, _)
PenaltyLoop(d, schedule, i, teacher_bookings, room_bookings, penalty) ==
  IF i > Len(schedule) THEN penalty
  ELSE LET lecture == schedule[i]
           teacher_key == <<lecture.teacher_id, lecture.timeslot>>
           room_key == <<lecture.room_id, lecture.timeslot>>
           p1 == IF teacher_key \in teacher_bookings THEN TeacherConflictPenalty ELSE 0
           p2 == IF room_key \in room_bookings THEN RoomConflictPenalty ELSE 0
       IN  PenaltyLoop(d, schedule, i + 1,
                       teacher_bookings \cup {teacher_key},
                       room_bookings \cup {room_key},
                       penalty + p1 + p2 + AvailabilityStep(d, lecture))

SchedulerGA_calculate_penalty_no_room(d, schedule) ==
  PenaltyLoopNoRoom(d, schedule, 1, {}, {}, 0)

SchedulerGA_calculate_penalty(d, schedule) ==
  PenaltyLoop(d, schedule, 1, {}, {}, 0)

\* 1.0 / (penalty + 1e-9), as the denominator penalty + eps * 1e-9
Fitness(penalty) == [penalty |-> penalty, eps |-> 1]

\* f < g for two such rationals: the larger denominator is the smaller fitness
FitnessLt(f, g) ==
  \/ f.penalty > g.penalty
  \/ f.penalty = g.penalty /\ f.eps > g.eps

FitnessLe(f, g) == f = g \/ FitnessLt(f, g)

----------------------------------------------------------------------------
(* StudentData *)

\* self.registrations[self.registrations['student_id'] == self.student_id]
student_regs(inp) ==
  SelectSeq(inp.registrations, LAMBDA row : row.student_id = inp.student_id)

StudentData_raises(inp) == student_regs(inp) = <<>>

student_courses(inp) ==
  [i \in DOMAIN student_regs(inp) |-> student_regs(inp)[i].course_id]

\* a defaultdict(list): after line 42 every registered course has an entry
lecture_groups(inp) ==
  [course \in Range(student_courses(inp)) |->
     SelectSeq(inp.master_schedule, LAMBDA lecture : lecture.course_id = course)]

StudentData(inp) ==
  [student_courses |-> student_courses(inp),
   lecture_groups  |-> lecture_groups(inp)]

----------------------------------------------------------------------------
(* StudentSchedulerGA *)

StudentSchedulerGA_num_genes(d) == Len(d.student_courses)

StudentSchedulerGA_raises_never(d) == FALSE

StudentSchedulerGA_raises(d) ==
  \E i \in DOMAIN d.student_courses :
     Len(d.lecture_groups[d.student_courses[i]]) = 0

StudentSchedulerGA_gene_space(d) ==
  [i \in DOMAIN d.student_courses |->
     [low |-> 0, high |-> Len(d.lecture_groups[d.student_courses[i]])]]

StudentSchedulerGA_decode_solution(d, sol) ==
  LET n == Len(d.student_courses)
      group(i) == d.lecture_groups[d.student_courses[i]]
  IN  IF \E i \in 1..n :
           \/ ~IndexOk(i - 1, Len(sol))
           \/ ~IndexOk(At(sol, i - 1), Len(group(i)))
      THEN DecodeError
      ELSE [error |-> "none",
            schedule |-> [i \in 1..n |-> At(group(i), At(sol, i - 1))]]

StudentConflictPenalty == 1000

StudyDayPenalty == 10

RECURSIVE ConflictLoop(_, _, _, _)
ConflictLoop(schedule, i, booked_timeslots, penalty) ==
  IF i > Len(schedule) THEN penalty
  ELSE LET timeslot == schedule[i].timeslot
       IN  IF timeslot \in booked_timeslots
           THEN ConflictLoop(schedule, i + 1, booked_timeslots,
                             penalty + StudentConflictPenalty)
           ELSE ConflictLoop(schedule, i + 1, booked_timeslots \cup {timeslot},
                             penalty)

study_days(schedule) == {schedule[i].Day : i \in DOMAIN schedule}

StudentSchedulerGA_penalty_per_lecture_day(schedule) ==
  ConflictLoop(schedule, 1, {}, 0) + Len(schedule) * StudyDayPenalty

StudentSchedulerGA_penalty(schedule) ==
  ConflictLoop(schedule, 1, {}, 0) + Cardinality(study_days(schedule)) * StudyDayPenalty

----------------------------------------------------------------------------
(* Both facades behind one interface, selected by the variant *)

Prepare_raises(v, inp) ==
  IF v = "institution" THEN DataPreparer_raises(inp) ELSE StudentData_raises(inp)

Prepare(v, inp) ==
  IF v = "institution" THEN DataPreparer(inp) ELSE StudentData(inp)

\* the facade's own check while it builds gene_space
GeneSpace_raises(v, d) ==
  IF v = "institution" THEN FALSE ELSE StudentSchedulerGA_raises(d)

GeneSpace(v, d) ==
  IF v = "institution" THEN SchedulerGA_gene_space(d)
  ELSE StudentSchedulerGA_gene_space(d)

num_genes(v, d) ==
  IF v = "institution" THEN SchedulerGA_num_genes(d)
  ELSE StudentSchedulerGA_num_genes(d)

decode_solution(v, d, sol) ==
  IF v = "institution" THEN SchedulerGA_decode_solution(d, sol)
  ELSE StudentSchedulerGA_decode_solution(d, sol)

\* _fitness_function: decode, penalty, 1.0 / (penalty + 1e-9)
fitness_function(v, d, sol) ==
  LET decoded == decode_solution(v, d, sol)
      penalty == IF v = "institution"
                 THEN SchedulerGA_calculate_penalty(d, decoded.schedule)
                 ELSE StudentSchedulerGA_penalty(decoded.schedule)
  IN  IF decoded.error # "none"
      THEN [error |-> decoded.error, schedule |-> <<>>, penalty |-> 0,
            fitness |-> Fitness(0)]
      ELSE [error |-> "none", schedule |-> decoded.schedule, penalty |-> penalty,
            fitness |-> Fitness(penalty)]

InBound(gs, sol) ==
  /\ Len(sol) = Len(gs)
  /\ \A i \in DOMAIN gs : gs[i].low <= sol[i] /\ sol[i] < gs[i].high

----------------------------------------------------------------------------
(* Inputs: the tables a caller may hand to the constructors *)

Nothing == <<>>

MaxPairs == 2

MaxLecturesPerWeek == 2

MaxRooms == 2

MaxPrefRows == 2

MaxOfferings == 3

MaxProbeDays == 2

MaxProbeHours == 3

Teachers == {"T1", "T2"}

CourseIds == {"C1", "C2"}

\* the classrooms table with n rows, room_id 1..n
RoomTable(n) == [i \in 1..n |-> i]

TeacherCourseRows ==
  {[teacher_id |-> t, course_id |-> c] : t \in Teachers, c \in CourseIds}

CourseTable(a, b) ==
  <<[course_id |-> "C1", lectures_per_week |-> a],
    [course_id |-> "C2", lectures_per_week |-> b]>>

InstitutionInput(teacher_courses, courses, classrooms, teacher_preferences) ==
  [teacher_courses |-> teacher_courses, courses |-> courses,
   classrooms |-> classrooms, teacher_preferences |-> teacher_preferences]

\* the encoding is checked on every small teacher_courses / courses / classrooms
EncodeInputs ==
  {InstitutionInput(tc, courses, RoomTable(r), <<>>) :
     tc \in {s \in SeqsUpTo(TeacherCourseRows, MaxPairs) : NoDuplicates(s)},
     courses \in {CourseTable(a, b) : a, b \in 1..MaxLecturesPerWeek}
                 \cup {<<CourseTable(a, a)[1]>> : a \in 1..MaxLecturesPerWeek},
     r \in 0..MaxRooms}

PrefRow(t, day, start, end) ==
  [teacher_id |-> t, day |-> day,
   preferred_start_time |-> start, preferred_end_time |-> end]

PrefRowChoices ==
  <<PrefRow("T1", "Sunday", ClockString(8, 0), ClockString(17, 0)),
    PrefRow("T1", "Sunday", ClockString(9, 0), ClockString(10, 0)),
    PrefRow("T2", "Sunday", ClockString(8, 30), ClockString(9, 30)),
    PrefRow("T2", "Monday", ClockString(8, 0), ClockString(9, 0)),
    PrefRow("T1", "Monday", ClockString(10, 0), ClockString(8, 0))>>

RECURSIVE SubTable(_, _, _)
\* the rows of table whose index is in keep, in table order, from index i on
SubTable(table, keep, i) ==
  IF i > Len(table) THEN <<>>
  ELSE (IF i \in keep THEN <<table[i]>> ELSE <<>>) \o SubTable(table, keep, i + 1)

AllWeekPrefs ==
  [k \in 1..(2 * Len(Days)) |->
     PrefRow(IF k <= Len(Days) THEN "T1" ELSE "T2",
             Days[((k - 1) % Len(Days)) + 1],
             ClockString(FirstHour, 0), ClockString(EndHour, 0))]

PrefTables ==
  {SubTable(PrefRowChoices, keep, 1) :
     keep \in {k \in SUBSET DOMAIN PrefRowChoices : Cardinality(k) <= MaxPrefRows}}
  \cup {AllWeekPrefs}

LectureTables ==
  {<<<<[teacher_id |-> "T1", course_id |-> "C1"]>>, CourseTable(1, 1)>>,
   <<<<[teacher_id |-> "T1", course_id |-> "C1"]>>, CourseTable(2, 1)>>,
   <<<<[teacher_id |-> "T1", course_id |-> "C1"],
       [teacher_id |-> "T2", course_id |-> "C2"]>>, CourseTable(1, 1)>>}

EvalRoomTables == {RoomTable(1), RoomTable(2), <<1, 1>>}

\* Scenario B: one lecture for each of two teachers, a single classroom, and each
\* teacher's only window [h:00, h+1:00) on the same day
ScenarioBInput(day, hour) ==
  InstitutionInput(
    <<[teacher_id |-> "T1", course_id |-> "C1"],
      [teacher_id |-> "T2", course_id |-> "C2"]>>,
    CourseTable(1, 1), RoomTable(1),
    <<PrefRow("T1", day, ClockString(hour, 0), ClockString(hour + 1, 0)),
      PrefRow("T2", day, ClockString(hour, 0), ClockString(hour + 1, 0))>>)

ScenarioBInputs ==
  {ScenarioBInput(Days[d], Hours[h]) : d \in DOMAIN Days, h \in DOMAIN Hours}

InstitutionEvalInputs ==
  {InstitutionInput(lt[1], lt[2], rooms, prefs) :
     lt \in LectureTables, rooms \in EvalRoomTables, prefs \in PrefTables}
  \cup ScenarioBInputs

Offering(course, day, hour, day_column) ==
  [course_id |-> course, timeslot |-> FormatTimeslot(day, hour), Day |-> day_column]

OfferingChoices ==
  {Offering(c, "Sunday", 8, "Sunday") : c \in CourseIds}
  \cup {Offering(c, "Sunday", 8, "Monday") : c \in CourseIds}
  \cup {Offering(c, "Monday", 9, "Monday") : c \in CourseIds}

Registration(s, c) == [student_id |-> s, course_id |-> c]

RegistrationTables ==
  {<<Registration("S1", "C1")>>,
   <<Registration("S1", "C1"), Registration("S1", "C2")>>,
   <<Registration("S2", "C1"), Registration("S1", "C2"), Registration("S1", "C1")>>,
   <<Registration("S1", "C1"), Registration("S1", "C3")>>,
   <<Registration("S1", "C1"), Registration("S1", "C1")>>,
   <<Registration("S2", "C1")>>}

StudentInput(master_schedule, registrations) ==
  [student_id |-> "S1", master_schedule |-> master_schedule,
   registrations |-> registrations]

StudentEvalInputs ==
  {StudentInput(ms, regs) :
     ms \in SeqsUpTo(OfferingChoices, MaxOfferings), regs \in RegistrationTables}

\* gene values tried on a bound [0, high): the first hours of the first days, the
\* last in-bound value, and high itself (out of bound)
ProbeGenes ==
  {d * Len(Hours) + h : d \in 0..(MaxProbeDays - 1), h \in 0..(MaxProbeHours - 1)}

CandidateGenes(high) == {g \in 0..high : g \in ProbeGenes \/ g >= high - 1}

RECURSIVE CandidateSolutions(_)
CandidateSolutions(gs) ==
  IF gs = <<>> THEN {<<>>}
  ELSE {<<g>> \o rest : g \in CandidateGenes(Head(gs).high),
                        rest \in CandidateSolutions(Tail(gs))}

----------------------------------------------------------------------------
(* The constructors and the pure functions, applied to drawn inputs *)

NoParams == [generations |-> 0, parents_mating |-> 0, sol_per_pop |-> 0,
             mutation_percent |-> 0]

StartWith(v, inp, params) ==
  /\ variant = v
  /\ input = inp
  /\ ga_params = params
  /\ pc = "Raw"
  /\ data = Nothing
  /\ gene_space = Nothing
  /\ population = Nothing
  /\ generations_completed = 0
  /\ best_solutions_fitness = <<>>
  /\ events = <<>>
  /\ solution = Nothing
  /\ result = Nothing

\* DataPreparer.__init__ / StudentData.__init__
PrepareData ==
  /\ pc = "Raw"
  /\ IF Prepare_raises(variant, input)
     THEN /\ pc' = "Error"
          /\ data' = data
     ELSE /\ pc' = "Prepared"
          /\ data' = Prepare(variant, input)
  /\ UNCHANGED <<variant, input, ga_params, gene_space, population,
                 generations_completed, best_solutions_fitness, events,
                 solution, result>>

\* the gene_space loop of SchedulerGA.__init__ / StudentSchedulerGA.__init__
BuildGeneSpace ==
  /\ pc = "Prepared"
  /\ IF GeneSpace_raises(variant, data)
     THEN /\ pc' = "Error"
          /\ gene_space' = gene_space
     ELSE /\ pc' = "Encoded"
          /\ gene_space' = GeneSpace(variant, data)
  /\ UNCHANGED <<variant, input, ga_params, data, population,
                 generations_completed, best_solutions_fitness, events,
                 solution, result>>

\* _decode_solution(solution)
Decode ==
  /\ pc = "Encoded"
  /\ \E sol \in CandidateSolutions(gene_space) :
        /\ solution' = sol
        /\ result' = decode_solution(variant, data, sol)
  /\ pc' = "Decoded"
  /\ UNCHANGED <<variant, input, ga_params, data, gene_space, population,
                 generations_completed, best_solutions_fitness, events>>

\* _fitness_function(ga_instance, solution, solution_idx)
Evaluate ==
  /\ pc = "Encoded"
  /\ \E sol \in CandidateSolutions(gene_space) :
        /\ solution' = sol
        /\ result' = fitness_function(variant, data, sol)
  /\ pc' = "Scored"
  /\ UNCHANGED <<variant, input, ga_params, data, gene_space, population,
                 generations_completed, best_solutions_fitness, events>>

EncodeInit == \E inp \in EncodeInputs : StartWith("institution", inp, NoParams)

EncodeNext == PrepareData \/ BuildGeneSpace

EncodeSpec == EncodeInit /\ [][EncodeNext]_vars

EvalInit ==
  \/ \E inp \in InstitutionEvalInputs : StartWith("institution", inp, NoParams)
  \/ \E inp \in StudentEvalInputs : StartWith("student", inp, NoParams)

EvalNext == PrepareData \/ BuildGeneSpace \/ Decode \/ Evaluate

EvalSpec == EvalInit /\ [][EvalNext]_vars

----------------------------------------------------------------------------
(* The pygad.GA instance that _create_ga_instance configures.                 *)
(* Where the engine draws at random the model allows every outcome: any tie   *)
(* order in the ranking, any crossover point, any set of mutated genes.       *)

MaxGenerations == 2

\* the 45 timeslots make each generation of an institution run wide: it is run for
\* fewer generations than a student run
InstitutionGenerations == 1

\* the arguments SchedulerGA / StudentSchedulerGA pass to pygad.GA; keep_elitism and
\* keep_parents are not passed and keep pygad's defaults
GA_config_no_elitism(params, n, gs) ==
  [num_generations        |-> params.generations,
   num_parents_mating     |-> params.parents_mating,
   sol_per_pop            |-> params.sol_per_pop,
   num_genes              |-> n,
   gene_space             |-> gs,
   mutation_percent_genes |-> params.mutation_percent,
   keep_elitism           |-> 0,
   keep_parents           |-> 0]

GA_config_fewer_generations(params, n, gs) ==
  [num_generations        |-> params.generations - 1,
   num_parents_mating     |-> params.parents_mating,
   sol_per_pop            |-> params.sol_per_pop,
   num_genes              |-> n,
   gene_space             |-> gs,
   mutation_percent_genes |-> params.mutation_percent,
   keep_elitism           |-> 1,
   keep_parents           |-> -1]

GA_config(params, n, gs) ==
  [num_generations        |-> params.generations,
   num_parents_mating     |-> params.parents_mating,
   sol_per_pop            |-> params.sol_per_pop,
   num_genes              |-> n,
   gene_space             |-> gs,
   mutation_percent_genes |-> params.mutation_percent,
   keep_elitism           |-> 1,
   keep_parents           |-> -1]

ga_instance == GA_config(ga_params, num_genes(variant, data), gene_space)

\* pygad.GA.__init__ raises ValueError on these
GA_rejects(cfg) ==
  \/ cfg.num_generations <= 0
  \/ cfg.sol_per_pop <= 0
  \/ cfg.num_genes <= 0
  \/ cfg.num_parents_mating <= 0
  \/ cfg.num_parents_mating > cfg.sol_per_pop
  \/ cfg.mutation_percent_genes <= 0
  \/ cfg.mutation_percent_genes > 100

\* numpy.random.uniform(low, high): a float of [low, high), and low when high = low
Draw(bound) ==
  IF bound.low < bound.high THEN bound.low..(bound.high - 1) ELSE {bound.low}

RECURSIVE DrawChromosomes(_)
DrawChromosomes(gs) ==
  IF gs = <<>> THEN {<<>>}
  ELSE {<<g>> \o rest : g \in Draw(Head(gs)), rest \in DrawChromosomes(Tail(gs))}

initialize_population(cfg) == SeqsOver(DrawChromosomes(cfg.gene_space), cfg.sol_per_pop)

\* cal_pop_fitness: fitness_func on every solution of the population
cal_pop_fitness(pop) == [i \in DOMAIN pop |-> fitness_function(variant, data, pop[i])]

\* fitness_func raises exactly when _decode_solution does
PopulationRaises(pop) ==
  \E i \in DOMAIN pop : decode_solution(variant, data, pop[i]).error # "none"

IsBest(fit, i) == \A j \in DOMAIN fit : FitnessLe(fit[j].fitness, fit[i].fitness)

\* best_solution(): the first solution with the highest fitness
best_match_idx(fit) ==
  CHOOSE i \in DOMAIN fit : IsBest(fit, i) /\ \A j \in 1..(i - 1) : ~IsBest(fit, j)

best_fitness(fit) == fit[best_match_idx(fit)].fitness

\* the solutions ranked by fitness, best first, ties in any order
Rankings(fit) ==
  {r \in [DOMAIN fit -> DOMAIN fit] :
     /\ \A a, b \in DOMAIN fit : a # b => r[a] # r[b]
     /\ \A a, b \in DOMAIN fit :
           a < b => FitnessLe(fit[r[b]].fitness, fit[r[a]].fitness)}

\* steady_state_selection(fitness, num_parents): the num_parents best
steady_state_selection(pop, ranking, num_parents) ==
  [k \in 1..num_parents |-> pop[ranking[k]]]

\* offspring[0:point] = parent1[0:point], offspring[point:] = parent2[point:]
single_point_crossover(parent1, parent2, point) ==
  [i \in DOMAIN parent1 |-> IF i <= point THEN parent1[i] ELSE parent2[i]]

RECURSIVE MutationResults(_, _, _, _)
\* random mutation inside gene_space: a mutated gene is drawn anew from its own bound
MutationResults(child, gs, percent, i) ==
  IF i > Len(child) THEN {<<>>}
  ELSE {<<g>> \o rest :
          g \in (IF percent >= 100 THEN {} ELSE {child[i]}) \cup Draw(gs[i]),
          rest \in MutationResults(child, gs, percent, i + 1)}

\* the solutions that offspring k (0-based) of the mating pool can become
Offspring(cfg, parents, k) ==
  LET parent1 == parents[(k % Len(parents)) + 1]
      parent2 == parents[((k + 1) % Len(parents)) + 1]
  IN  UNION {MutationResults(single_point_crossover(parent1, parent2, point),
                             cfg.gene_space, cfg.mutation_percent_genes, 1) :
               point \in 0..(cfg.num_genes - 1)}

\* the solutions carried over unchanged into the next population
Kept(cfg, pop, ranking) ==
  IF cfg.keep_elitism > 0
  THEN steady_state_selection(pop, ranking, cfg.keep_elitism)
  ELSE IF cfg.keep_parents = -1
  THEN steady_state_selection(pop, ranking, cfg.num_parents_mating)
  ELSE steady_state_selection(pop, ranking, cfg.keep_parents)

NextPopulations(cfg, pop, fit) ==
  UNION {LET parents == steady_state_selection(pop, ranking, cfg.num_parents_mating)
             kept == Kept(cfg, pop, ranking)
             num_offspring == cfg.sol_per_pop - Len(kept)
             choices == [k \in 1..num_offspring |-> Offspring(cfg, parents, k - 1)]
         IN  {kept \o offspring :
                offspring \in
                  {s \in [1..num_offspring -> UNION Range(choices)] :
                     \A k \in 1..num_offspring : s[k] \in choices[k]}} :
           ranking \in Rankings(fit)}

\* _on_generation: logs the generation and best_solutions_fitness[-1], returns None
on_generation(completed, fitness_log) == "None"

LoggedEvent(completed, fitness_log) ==
  [generation |-> completed, best_fitness |-> fitness_log[Len(fitness_log)]]

Raised(exception, where) == [error |-> exception, raised_by |-> where]

----------------------------------------------------------------------------
(* The facade's life cycle *)

\* SchedulerGA.__init__ / StudentSchedulerGA.__init__: gene_space, then pygad.GA(...)
CreateScheduler ==
  /\ pc = "Prepared"
  /\ IF GeneSpace_raises(variant, data)
     THEN /\ pc' = "Error"
          /\ result' = Raised("ValueError", "__init__")
          /\ UNCHANGED <<gene_space, population>>
     ELSE /\ gene_space' = GeneSpace(variant, data)
          /\ LET cfg == GA_config(ga_params, num_genes(variant, data), gene_space')
             IN  IF GA_rejects(cfg)
                 THEN /\ pc' = "Error"
                      /\ result' = Raised("ValueError", "pygad.GA")
                      /\ UNCHANGED population
                 ELSE /\ pc' = "Initialized"
                      /\ population' \in initialize_population(cfg)
                      /\ UNCHANGED result
  /\ UNCHANGED <<variant, input, ga_params, data, generations_completed,
                 best_solutions_fitness, events, solution>>

\* run(): ga_instance.run() measures the fitness of the initial population
RunStart ==
  /\ pc = "Initialized"
  /\ IF PopulationRaises(population)
     THEN /\ pc' = "Error"
          /\ result' = Raised("IndexError", "_decode_solution")
     ELSE /\ pc' = "Evolving"
          /\ UNCHANGED result
  /\ UNCHANGED <<variant, input, ga_params, data, gene_space, population,
                 generations_completed, best_solutions_fitness, events, solution>>

\* one pass of the loop of ga_instance.run(): log the best fitness, select, cross,
\* mutate, keep the elite, measure the fitness, call on_generation
Generation ==
  /\ pc = "Evolving"
  /\ generations_completed < ga_instance.num_generations
  /\ LET fit == cal_pop_fitness(population)
     IN  /\ population' \in NextPopulations(ga_instance, population, fit)
         /\ best_solutions_fitness' = Append(best_solutions_fitness, best_fitness(fit))
  /\ generations_completed' = generations_completed + 1
  /\ events' = Append(events, LoggedEvent(generations_completed', best_solutions_fitness'))
  /\ IF PopulationRaises(population')
     THEN /\ pc' = "Error"
          /\ result' = Raised("IndexError", "_decode_solution")
     ELSE /\ pc' = IF on_generation(generations_completed', best_solutions_fitness') = "stop"
                   THEN "Breaking" ELSE "Evolving"
          /\ UNCHANGED result
  /\ UNCHANGED <<variant, input, ga_params, data, gene_space, solution>>

\* the loop is over: run() takes best_solution(), decodes it and recomputes its penalty
RunFinish ==
  /\ \/ pc = "Breaking"
     \/ pc = "Evolving" /\ generations_completed >= ga_instance.num_generations
  /\ LET fit == cal_pop_fitness(population)
     IN  /\ best_solutions_fitness' = Append(best_solutions_fitness, best_fitness(fit))
         /\ solution' = population[best_match_idx(fit)]
  /\ result' = fitness_function(variant, data, solution')
  /\ pc' = "Converged"
  /\ UNCHANGED <<variant, input, ga_params, data, gene_space, population,
                 generations_completed, events>>

GAParams(generations, parents_mating, sol_per_pop, mutation_percent) ==
  [generations |-> generations, parents_mating |-> parents_mating,
   sol_per_pop |-> sol_per_pop, mutation_percent |-> mutation_percent]

\* one teacher, one course of one lecture, and preferences that make some timeslots
\* free of penalty; with one classroom, and with none
InstitutionRunInputs ==
  {InstitutionInput(<<[teacher_id |-> "T1", course_id |-> "C1"]>>, CourseTable(1, 1),
                    RoomTable(r), SubTable(PrefRowChoices, {2, 5}, 1)) :
     r \in {0, 1}}

InstitutionRunParams == {GAParams(InstitutionGenerations, 2, 2, 10)}

StudentRunSchedules ==
  {<<Offering("C1", "Sunday", 8, "Sunday"), Offering("C2", "Sunday", 8, "Sunday"),
     Offering("C1", "Monday", 9, "Monday"), Offering("C2", "Sunday", 8, "Monday")>>,
   <<Offering("C1", "Sunday", 8, "Sunday"), Offering("C2", "Sunday", 8, "Sunday")>>}

StudentRunInputs ==
  {StudentInput(ms, regs) : ms \in StudentRunSchedules, regs \in RegistrationTables}

\* <<parents_mating, sol_per_pop>>; the last asks for more parents than solutions
MatingChoices == {<<1, 2>>, <<2, 2>>, <<2, 3>>, <<3, 2>>}

StudentRunParams ==
  {GAParams(g, m[1], m[2], mp) :
     g \in 1..MaxGenerations, m \in MatingChoices, mp \in {10, 100}}

Init ==
  \/ \E inp \in InstitutionRunInputs, params \in InstitutionRunParams :
        StartWith("institution", inp, params)
  \/ \E inp \in StudentRunInputs, params \in StudentRunParams :
        StartWith("student", inp, params)

Next == PrepareData \/ CreateScheduler \/ RunStart \/ Generation \/ RunFinish

Spec == Init /\ [][Next]_vars

----------------------------------------------------------------------------
(* Properties of the pure functions *)

\* "HH:MM" read as minutes since midnight
Minutes(clock) == (clock[1] * 10 + clock[2]) * 60 + clock[4] * 10 + clock[5]

\* the lecture starts inside a window recorded for its teacher on its day
StartsInsideWindow(teacher_preferences, lecture) ==
  \E row \in Range(teacher_preferences) :
     /\ row.teacher_id = lecture.teacher_id
     /\ row.day = lecture.timeslot.day
     /\ Minutes(row.preferred_start_time) <= Minutes(lecture.timeslot.time)
     /\ Minutes(lecture.timeslot.time) < Minutes(row.preferred_end_time)

NoTeacherClash(schedule) ==
  \A i, j \in DOMAIN schedule :
     i # j => ~(/\ schedule[i].teacher_id = schedule[j].teacher_id
                /\ schedule[i].timeslot = schedule[j].timeslot)

NoRoomClash(schedule) ==
  \A i, j \in DOMAIN schedule :
     i # j => ~(/\ schedule[i].room_id = schedule[j].room_id
                /\ schedule[i].timeslot = schedule[j].timeslot)

InstitutionScored ==
  variant = "institution" /\ pc = "Scored" /\ result.error = "none"

\* C1: the institution penalty of a decoded schedule is never negative, and it is 0
\* exactly when no two lectures share (teacher_id, timeslot), no two share
\* (room_id, timeslot), and every lecture starts inside a window recorded for its
\* teacher on its day.
C1_PenaltyZeroIffFeasible ==
  InstitutionScored =>
    /\ result.penalty >= 0
    /\ (result.penalty = 0) <=>
         (/\ NoTeacherClash(result.schedule)
          /\ NoRoomClash(result.schedule)
          /\ \A i \in DOMAIN result.schedule :
                StartsInsideWindow(input.teacher_preferences, result.schedule[i]))

C1_Witness ==
  /\ InstitutionScored
  /\ Len(result.schedule) = 2
  /\ Len(input.classrooms) = 2
  /\ result.penalty = 0

\* C4: decoding a chromosome whose genes are inside their bounds raises nothing and
\* returns one record per decision unit, in order: record i of the institution
\* schedule carries the course and teacher of lectures_to_schedule[i], record i of the
\* student schedule is an offering of the master schedule for student_courses[i].
C4_DecodeTotalOnBoundedGenes ==
  (pc = "Decoded" /\ InBound(gene_space, solution)) =>
    /\ result.error = "none"
    /\ variant = "institution" =>
         /\ Len(result.schedule) = Len(data.lectures_to_schedule)
         /\ \A i \in DOMAIN result.schedule :
               /\ result.schedule[i].course_id = data.lectures_to_schedule[i].course_id
               /\ result.schedule[i].teacher_id = data.lectures_to_schedule[i].teacher_id
               /\ result.schedule[i].room_id \in Range(input.classrooms)
               /\ result.schedule[i].timeslot \in Range(timeslots)
    /\ variant = "student" =>
         /\ Len(result.schedule) = Len(data.student_courses)
         /\ \A i \in DOMAIN result.schedule :
               /\ result.schedule[i] \in Range(input.master_schedule)
               /\ result.schedule[i].course_id = data.student_courses[i]

C4_Witness ==
  /\ pc = "Decoded"
  /\ variant = "institution"
  /\ InBound(gene_space, solution)
  /\ Len(result.schedule) = 2
  /\ solution[1] # solution[3]
  /\ solution[2] = Len(timeslots) - 1

AvailableSlots(inp, teacher) ==
  {k \in DOMAIN timeslots :
     StartsInsideWindow(inp.teacher_preferences,
                        [teacher_id |-> teacher, timeslot |-> timeslots[k]])}

\* two lectures of two different teachers, one classroom, and each teacher
\* available at exactly one timeslot, the same for both
IsScenarioB(inp, d) ==
  /\ Len(inp.classrooms) = 1
  /\ Len(inp.teacher_courses) = 2
  /\ Len(d.lectures_to_schedule) = 2
  /\ d.lectures_to_schedule[1].teacher_id # d.lectures_to_schedule[2].teacher_id
  /\ d.lectures_to_schedule[1].course_id # d.lectures_to_schedule[2].course_id
  /\ Cardinality(AvailableSlots(inp, d.lectures_to_schedule[1].teacher_id)) = 1
  /\ AvailableSlots(inp, d.lectures_to_schedule[1].teacher_id)
       = AvailableSlots(inp, d.lectures_to_schedule[2].teacher_id)

RECURSIVE AllInBound(_)
\* every chromosome inside the bounds of gs
AllInBound(gs) ==
  IF gs = <<>> THEN {<<>>}
  ELSE {<<g>> \o rest : g \in Head(gs).low..(Head(gs).high - 1),
                        rest \in AllInBound(Tail(gs))}

ScenarioBScored ==
  /\ InstitutionScored
  /\ InBound(gene_space, solution)
  /\ IsScenarioB(input, data)

\* C7 as stated: in Scenario B no in-bound chromosome has a penalty below 1000.
C7_AsStated == ScenarioBScored => result.penalty >= 1000

\* C7 amended: in Scenario B every in-bound chromosome has penalty at least 500, none
\* has penalty 0, and over all in-bound chromosomes (the full 45-slot range) the
\* minimum is exactly 500.
C7_MinimumIs500 ==
  ScenarioBScored =>
    /\ result.penalty >= 500
    /\ (\A i \in DOMAIN solution : solution[i] = 0) =>
         /\ \A sol \in AllInBound(gene_space) :
               fitness_function(variant, data, sol).penalty >= 500
         /\ \E sol \in AllInBound(gene_space) :
               fitness_function(variant, data, sol).penalty = 500

C7_Witness ==
  /\ ScenarioBScored
  /\ result.penalty = 500
  /\ result.schedule[1].timeslot # result.schedule[2].timeslot

StudentScored == variant = "student" /\ pc = "Scored" /\ result.error = "none"

ScheduleTimeslots(schedule) == {schedule[i].timeslot : i \in DOMAIN schedule}

ScheduleDays(schedule) == {schedule[i].Day : i \in DOMAIN schedule}

\* two registered courses, one offering each, both offerings at the same timeslot
IsScenarioC(d) ==
  /\ Len(d.student_courses) = 2
  /\ d.student_courses[1] # d.student_courses[2]
  /\ \A i \in 1..2 : Len(d.lecture_groups[d.student_courses[i]]) = 1
  /\ d.lecture_groups[d.student_courses[1]][1].timeslot
       = d.lecture_groups[d.student_courses[2]][1].timeslot

\* C8: the student penalty is 1000 for every chosen offering beyond the first at its
\* timeslot plus 10 for every distinct day; in Scenario C it is 1010 or 1020 and the
\* schedule has exactly 2 entries.
C8_StudentPenalty ==
  StudentScored =>
    /\ result.penalty =
         1000 * (Len(result.schedule) - Cardinality(ScheduleTimeslots(result.schedule)))
         + 10 * Cardinality(ScheduleDays(result.schedule))
    /\ result.fitness = Fitness(result.penalty)
    /\ IsScenarioC(data) =>
         /\ Len(result.schedule) = 2
         /\ result.penalty \in {1010, 1020}

C8_Witness ==
  /\ StudentScored
  /\ IsScenarioC(data)
  /\ result.penalty = 1010

EntriesOf(lectures, row) ==
  {i \in DOMAIN lectures :
     lectures[i] = [course_id |-> row.course_id, teacher_id |-> row.teacher_id]}

LecturesPerWeekOf(courses, course_id) ==
  (CHOOSE row \in Range(courses) : row.course_id = course_id).lectures_per_week

\* C10: after construction every (teacher_id, course_id) row of teacher_courses has
\* exactly lectures_per_week(course_id) entries in lectures_to_schedule, every entry
\* comes from such a row, and gene_space has 2 * len(lectures_to_schedule) bounds,
\* alternating [0, number of classrooms) and [0, number of timeslots).
C10_EncodingComplete ==
  (variant = "institution" /\ pc = "Encoded") =>
    /\ \A row \in Range(input.teacher_courses) :
          Cardinality(EntriesOf(data.lectures_to_schedule, row))
            = LecturesPerWeekOf(input.courses, row.course_id)
    /\ \A i \in DOMAIN data.lectures_to_schedule :
          \E row \in Range(input.teacher_courses) :
             i \in EntriesOf(data.lectures_to_schedule, row)
    /\ Len(gene_space) = 2 * Len(data.lectures_to_schedule)
    /\ \A i \in DOMAIN data.lectures_to_schedule :
          /\ gene_space[2 * i - 1] = [low |-> 0, high |-> Len(input.classrooms)]
          /\ gene_space[2 * i] = [low |-> 0, high |-> Len(Days) * (EndHour - FirstHour)]

C10_Witness ==
  /\ variant = "institution"
  /\ pc = "Encoded"
  /\ Len(input.teacher_courses) = 2
  /\ Len(data.lectures_to_schedule) = 4
  /\ Len(gene_space) = 8

----------------------------------------------------------------------------
(* Properties of a run *)

Constructed == pc \in {"Initialized", "Evolving", "Breaking", "Converged"}

Monotone(fitness_log) ==
  \A i, j \in DOMAIN fitness_log : i < j => FitnessLe(fitness_log[i], fitness_log[j])

BestFitnessOf(pop) == best_fitness(cal_pop_fitness(pop))

\* C2: the best fitness never decreases from one generation to the next, in what
\* _on_generation logs, in best_solutions_fitness and in the population itself, and
\* a best solution of the population is a member of the next population.
C2_Elitism ==
  /\ [](/\ Monotone(best_solutions_fitness)
        /\ Monotone([k \in DOMAIN events |-> events[k].best_fitness]))
  /\ [][(generations_completed' # generations_completed /\ pc' # "Error") =>
          LET fit == cal_pop_fitness(population)
          IN  /\ FitnessLe(best_fitness(fit), BestFitnessOf(population'))
              /\ \E i \in DOMAIN population :
                    population[i] \in Range(population') /\ IsBest(fit, i)]_vars

C2_Witness ==
  /\ pc = "Converged"
  /\ Len(events) = 2
  /\ FitnessLt(events[1].best_fitness, events[2].best_fitness)
  /\ FitnessLt(events[2].best_fitness, best_solutions_fitness[3])

\* C3: every gene of every chromosome of the population lies inside the bound that
\* gene_space declares for its position: room genes in [0, num_rooms), timeslot genes
\* in [0, num_timeslots), student genes in [0, number of offerings of the course).
C3_GenesInsideBounds ==
  Constructed =>
    \A c \in DOMAIN population :
       /\ InBound(gene_space, population[c])
       /\ variant = "institution" =>
            \A i \in DOMAIN data.lectures_to_schedule :
               /\ population[c][2 * i - 1] \in 0..(Len(input.classrooms) - 1)
               /\ population[c][2 * i] \in 0..(Len(Days) * (EndHour - FirstHour) - 1)
       /\ variant = "student" =>
            \A i \in DOMAIN data.student_courses :
               population[c][i] \in
                 0..(Cardinality({k \in DOMAIN input.master_schedule :
                        input.master_schedule[k].course_id = data.student_courses[i]}) - 1)

\* the same, for the runs whose bounds all hold at least one value
C3_GenesInsideNonEmptyBounds ==
  (\A i \in DOMAIN gene_space : gene_space[i].low < gene_space[i].high)
    => C3_GenesInsideBounds

HasUnofferedCourse(inp) ==
  \E r \in DOMAIN inp.registrations :
     /\ inp.registrations[r].student_id = inp.student_id
     /\ \A k \in DOMAIN inp.master_schedule :
           inp.master_schedule[k].course_id # inp.registrations[r].course_id

\* C5: when the student is registered for a course without offering, construction
\* ends in an error before the GA instance exists: no population is initialized and
\* no generation runs.
C5_UnofferedCourseFailsConstruction ==
  /\ []((variant = "student" /\ HasUnofferedCourse(input)) =>
          /\ pc \in {"Raw", "Prepared", "Error"}
          /\ population = Nothing
          /\ generations_completed = 0
          /\ events = <<>>)
  /\ [][(variant = "student" /\ HasUnofferedCourse(input) /\ pc = "Prepared")
          => pc' = "Error"]_vars

C5_Witness ==
  /\ variant = "student"
  /\ HasUnofferedCourse(input)
  /\ pc = "Error"
  /\ result = Raised("ValueError", "__init__")
  /\ ga_params.parents_mating <= ga_params.sol_per_pop

\* some decision unit has no valid choice
HasEmptyDecisionUnit(v, inp) ==
  IF v = "institution"
  THEN Len(inp.teacher_courses) > 0 /\ Len(inp.classrooms) = 0
  ELSE HasUnofferedCourse(inp)

\* C6: when a decision unit has zero valid choices, construction fails: the facade is
\* never constructed, and no population is initialized or evaluated.
C6_EmptyGeneSpaceFailsConstruction ==
  HasEmptyDecisionUnit(variant, input) =>
    /\ ~Constructed
    /\ population = Nothing

ValidConfiguration ==
  \A i \in DOMAIN gene_space : gene_space[i].low < gene_space[i].high

\* the steps a run still has to take
StepsLeft ==
  CASE pc = "Raw"         -> ga_params.generations + 4
    [] pc = "Prepared"    -> ga_params.generations + 3
    [] pc = "Initialized" -> ga_params.generations + 2
    [] pc = "Evolving"    -> ga_params.generations - generations_completed + 1
    [] OTHER              -> 0

\* the run can take its next step: ENABLED Next of a constructed run, by the guard of
\* the one action its position allows
CanStep ==
  CASE pc = "Initialized" -> ENABLED RunStart
    [] pc = "Evolving" /\ generations_completed < ga_instance.num_generations ->
         NextPopulations(ga_instance, population, cal_pop_fitness(population)) # {}
    [] OTHER -> ENABLED RunFinish

\* C9: a run started from Initialized with a valid configuration raises nothing, can
\* always take its next step until Converged, and every step leaves fewer steps to
\* take, so it terminates, in Converged; it reaches Converged after exactly
\* num_generations generations and never earlier; _on_generation is called once per
\* generation, with the indices 1, 2, ... in order, and nothing happens after
\* Converged.
C9_TerminationByGenerationCount ==
  /\ [](/\ pc \in {"Raw", "Prepared", "Initialized"} =>
             generations_completed = 0 /\ events = <<>>
        /\ Constructed =>
             /\ generations_completed <= ga_params.generations
             /\ Len(events) = generations_completed
             /\ \A k \in DOMAIN events : events[k].generation = k
        /\ pc = "Converged" =>
             generations_completed = ga_params.generations /\ ~ENABLED Next
        /\ (pc \in {"Initialized", "Evolving"} /\ ValidConfiguration) => CanStep)
  /\ [][StepsLeft' < StepsLeft]_vars
  /\ [][(pc \in {"Initialized", "Evolving"} /\ ValidConfiguration)
          => pc' \in {"Evolving", "Converged"}]_vars

\* a student run of two generations that has converged, with its two logged events
C9_Witness ==
  /\ pc = "Converged"
  /\ variant = "student"
  /\ ga_params.generations = 2
  /\ generations_completed = 2
  /\ Len(events) = 2
  /\ events[2].generation = 2
  /\ result.error = "none"

====
